---- MODULE Spec2Model ----
(***************************************************************************)
(* Model of veverky.py, the Central Park squirrel census dashboard: the    *)
(* cached loader load_data (coordinate and boolean normalisation), the     *)
(* three sidebar multiselect filters, and the aggregates the script hands  *)
(* to the metrics, the map, the charts and the data table.                 *)
(*                                                                         *)
(* A script run is single-threaded and runs top to bottom, so one run is   *)
(* one action.  Streamlit reruns the whole script on every widget change.  *)
(***************************************************************************)
EXTENDS Integers, Sequences, FiniteSets, TLC

(***************************************************************************)
(* Bounds of the model.                                                    *)
(***************************************************************************)
\* Largest number of data rows of the source file.
MaxRows == 2

(***************************************************************************)
(* Cell values.  pd.read_csv hands the script NaN for a missing value, a   *)
(* Python bool, an int, a float or a str.  Strings are sequences of        *)
(* one-character strings, so that str(), upper(), replace() and the        *)
(* numeric parse work on characters.  A float is a decimal m * 10^(-e)     *)
(* in lowest form (e = 0 or m not a multiple of 10).                       *)
(***************************************************************************)
NaN == [t |-> "nan"]
StrV(s) == [t |-> "str", s |-> s]
BoolV(b) == [t |-> "bool", b |-> b]
IntV(n) == [t |-> "int", n |-> n]
FloatV(m, e) == [t |-> "float", m |-> m, e |-> e]

isna(v) == v.t = "nan"

DigitChars == <<"0", "1", "2", "3", "4", "5", "6", "7", "8", "9">>
LowerChars == <<"a", "b", "c", "d", "e", "f", "g", "h", "i", "j", "k", "l", "m",
                "n", "o", "p", "q", "r", "s", "t", "u", "v", "w", "x", "y", "z">>
UpperChars == <<"A", "B", "C", "D", "E", "F", "G", "H", "I", "J", "K", "L", "M",
                "N", "O", "P", "Q", "R", "S", "T", "U", "V", "W", "X", "Y", "Z">>

IsDigit(c) == \E i \in 1..Len(DigitChars) : DigitChars[i] = c
DigitVal(c) == (CHOOSE i \in 1..Len(DigitChars) : DigitChars[i] = c) - 1

\* The decimal digits of a natural number, as Python prints them.
RECURSIVE NatStr(_)
NatStr(n) ==
    IF n < 10 THEN <<DigitChars[n + 1]>>
    ELSE NatStr(n \div 10) \o <<DigitChars[(n % 10) + 1]>>

\* The natural number a sequence of digits denotes (the empty sequence: 0).
RECURSIVE DigitsVal(_)
DigitsVal(ds) ==
    IF ds = <<>> THEN 0
    ELSE 10 * DigitsVal(SubSeq(ds, 1, Len(ds) - 1)) + DigitVal(ds[Len(ds)])

RECURSIVE Pow10(_)
Pow10(e) == IF e = 0 THEN 1 ELSE 10 * Pow10(e - 1)

\* n as a string of exactly w digits (w >= its number of digits).
RECURSIVE ZeroPad(_, _)
ZeroPad(ds, w) == IF Len(ds) >= w THEN ds ELSE ZeroPad(<<"0">> \o ds, w)

\* A decimal in lowest form: trailing zeros of the fraction dropped.
RECURSIVE Lowest(_, _)
Lowest(m, e) ==
    IF e > 0 /\ m % 10 = 0 THEN Lowest(m \div 10, e - 1) ELSE FloatV(m, e)

Abs(n) == IF n < 0 THEN 0 - n ELSE n

\* repr of a Python float: sign, integer part, ".", fraction ("0" if none).
FloatStr(v) ==
    LET a == Abs(v.m)
        p == Pow10(v.e)
        frac == IF v.e = 0 THEN <<"0">> ELSE ZeroPad(NatStr(a % p), v.e)
    IN (IF v.m < 0 THEN <<"-">> ELSE <<>>) \o NatStr(a \div p) \o <<".">> \o frac

IntStr(n) == (IF n < 0 THEN <<"-">> ELSE <<>>) \o NatStr(Abs(n))

\* str(x) / Series.astype(str): the string form of a cell value.
PyStr(v) ==
    CASE v.t = "str" -> v.s
      [] v.t = "nan" -> <<"n", "a", "n">>
      [] v.t = "bool" -> IF v.b THEN <<"T", "r", "u", "e">>
                         ELSE <<"F", "a", "l", "s", "e">>
      [] v.t = "int" -> IntStr(v.n)
      [] v.t = "float" -> FloatStr(v)

UpperChar(c) ==
    IF \E i \in 1..Len(LowerChars) : LowerChars[i] = c
    THEN UpperChars[CHOOSE i \in 1..Len(LowerChars) : LowerChars[i] = c]
    ELSE c

\* str.upper()
Upper(s) == [i \in 1..Len(s) |-> UpperChar(s[i])]

\* str.replace(old, new) for one-character old and new.
Replace(s, old, new) == [i \in 1..Len(s) |-> IF s[i] = old THEN new ELSE s[i]]

(***************************************************************************)
(* pd.to_numeric(..., errors='coerce') on a string: an optional sign, then *)
(* digits with at most one period and at least one digit; anything else    *)
(* (the string "nan" of a missing value included) is coerced to NaN.       *)
(***************************************************************************)
to_numeric(s) ==
    LET signed == Len(s) > 0 /\ s[1] \in {"-", "+"}
        body == IF signed THEN Tail(s) ELSE s
        dots == {i \in 1..Len(body) : body[i] = "."}
        wellFormed == /\ \A i \in 1..Len(body) : IsDigit(body[i]) \/ body[i] = "."
                      /\ Cardinality(dots) <= 1
                      /\ \E i \in 1..Len(body) : IsDigit(body[i])
        dot == IF dots = {} THEN Len(body) + 1 ELSE CHOOSE i \in dots : TRUE
        whole == SubSeq(body, 1, dot - 1)
        frac == SubSeq(body, dot + 1, Len(body))
        mag == DigitsVal(whole \o frac)
    IN IF ~wellFormed THEN NaN
       ELSE Lowest(IF s[1] = "-" THEN 0 - mag ELSE mag, Len(frac))

(***************************************************************************)
(* Columns.  A frame is [columns, rows]: the column names and the sequence *)
(* of rows, each row a function from the column names to cell values.      *)
(***************************************************************************)
bool_cols == {"Running", "Chasing", "Climbing", "Eating", "Foraging", "Kuks", "Quaas",
              "Moans", "Tail_flags", "Tail_twitches", "Approaches", "Indifferent",
              "Runs_from"}

\* The columns the script reads by name after load_data (a KeyError without them).
RequiredColumns == {"Unique_Squirrel_ID", "X", "Y", "Age", "Primary_Fur_Color", "Shift",
                    "Location", "Running", "Chasing", "Climbing", "Eating", "Foraging",
                    "Kuks", "Quaas", "Moans", "Approaches", "Indifferent", "Runs_from"}

\* Boolean columns load_data normalises only if present and nothing reads later.
OptionalColumns == bool_cols \ RequiredColumns

AllColumns == RequiredColumns \cup OptionalColumns

EmptyFrame == [columns |-> {}, rows |-> <<>>]

\* len(frame)
len(d) == Len(d.rows)

(***************************************************************************)
(* load_data, lines 13-29.                                                 *)
(***************************************************************************)
TRUE_ == <<"T", "R", "U", "E">>

\* Line 19 / 20, per value: astype(str), ',' -> '.', to_numeric(errors='coerce').
\* Faulty variant: the comma is not replaced before the parse.
ConvertCoordinateNoReplace(v) == to_numeric(PyStr(v))
ConvertCoordinate(v) == to_numeric(Replace(PyStr(v), ",", "."))

\* Line 27, per value: True if str(x).upper() == 'TRUE' else False.
\* Faulty variant: the comparison with 'TRUE' without upper().
ConvertBoolCaseSensitive(v) == BoolV(PyStr(v) = TRUE_)
ConvertBool(v) == BoolV(Upper(PyStr(v)) = TRUE_)

\* Lines 16-29: the frame load_data returns for the parsed source f.
load_data_body(f) ==
    [columns |-> f.columns,
     rows |-> [i \in 1..Len(f.rows) |->
                [c \in f.columns |->
                    IF c \in {"X", "Y"} THEN ConvertCoordinate(f.rows[i][c])
                    ELSE IF c \in bool_cols THEN ConvertBool(f.rows[i][c])
                    ELSE f.rows[i][c]]]]

\* @st.cache_data, line 12: the body runs (and the file is read) only when the
\* cache c holds no entry; the call returns [value, cache, read].
\* Faulty variant: load_data without the cache decorator.
load_data_uncached(c, f) ==
    [value |-> load_data_body(f), cache |-> <<load_data_body(f)>>, read |-> <<f>>]
load_data(c, f) ==
    IF c # <<>> THEN [value |-> c[1], cache |-> c, read |-> <<>>]
    ELSE [value |-> load_data_body(f), cache |-> <<load_data_body(f)>>, read |-> <<f>>]

(***************************************************************************)
(* Sidebar filters, lines 36-46, and their application, lines 49-55.       *)
(***************************************************************************)
\* df[col].dropna().unique().tolist(): the options of a multiselect, as a set.
Options(d, col) == {d.rows[i][col] : i \in {j \in 1..len(d) : ~isna(d.rows[j][col])}}

\* Series.isin(values), per value.
\* Faulty variant: a missing value passes the membership test.
isin_or_na(v, values) == v \in values \/ isna(v)
isin(v, values) == v \in values

\* frame[mask]: the rows whose entry of the boolean mask is true, in order.
RECURSIVE MaskRows(_, _)
MaskRows(rows, mask) ==
    IF rows = <<>> THEN <<>>
    ELSE (IF Head(mask) THEN <<Head(rows)>> ELSE <<>>) \o
         MaskRows(Tail(rows), Tail(mask))

\* frame[frame[col].isin(values)]
WhereIn(d, col, values) ==
    [d EXCEPT !.rows = MaskRows(d.rows, [i \in 1..len(d) |-> isin(d.rows[i][col], values)])]

\* The script's two names for the table: env = [df, filtered_df].
\* Line 49: filtered_df = df.copy()
CopyDf(env) == [env EXCEPT !.filtered_df = env.df]

\* Lines 50-51 (52-53, 54-55): if selected: filtered_df = filtered_df[...isin(selected)]
\* Faulty variants: the filter applied without the `if selected` guard; the
\* filter assigned to df as well as to filtered_df.
FilterStepAlways(env, col, selected) ==
    [env EXCEPT !.filtered_df = WhereIn(env.filtered_df, col, selected)]
FilterStepInPlace(env, col, selected) ==
    IF selected # {}
    THEN [df |-> WhereIn(env.filtered_df, col, selected),
          filtered_df |-> WhereIn(env.filtered_df, col, selected)]
    ELSE env
FilterStep(env, col, selected) ==
    IF selected # {}
    THEN [env EXCEPT !.filtered_df = WhereIn(env.filtered_df, col, selected)]
    ELSE env

\* Lines 49-55 on the loaded table d with the widgets' values sel.
ApplyFilters(d, sel) ==
    FilterStep(
        FilterStep(
            FilterStep(CopyDf([df |-> d, filtered_df |-> EmptyFrame]),
                       "Primary_Fur_Color", sel.colors),
            "Age", sel.ages),
        "Shift", sel.shifts)

(***************************************************************************)
(* Aggregates and rendered elements, lines 57-153.                         *)
(***************************************************************************)
Adult == <<"A", "d", "u", "l", "t">>
Gray == <<"G", "r", "a", "y">>

\* Line 151: .head(100)
HeadRows == 100

activities == <<"Running", "Chasing", "Climbing", "Eating", "Foraging">>
vocalizations == <<"Kuks", "Quaas", "Moans">>
interactions == <<"Approaches", "Indifferent", "Runs_from">>
TableColumns == {"Unique_Squirrel_ID", "Age", "Primary_Fur_Color", "Shift",
                 "Running", "Climbing", "Eating", "Foraging"}

\* frame[frame[col] == value]
WhereEq(d, col, value) ==
    [d EXCEPT !.rows = MaskRows(d.rows, [i \in 1..len(d) |-> d.rows[i][col] = StrV(value)])]

\* frame[col].sum() of a boolean column
BoolSum(d, col) == Cardinality({i \in 1..len(d) : d.rows[i][col].b})

\* A sequence of numbers in descending order (insertion sort).
RECURSIVE InsertDesc(_, _)
InsertDesc(x, sorted) ==
    IF sorted = <<>> THEN <<x>>
    ELSE IF x >= Head(sorted) THEN <<x>> \o sorted
    ELSE <<Head(sorted)>> \o InsertDesc(x, Tail(sorted))
RECURSIVE SortDesc(_)
SortDesc(xs) == IF xs = <<>> THEN <<>> ELSE InsertDesc(Head(xs), SortDesc(Tail(xs)))

\* [frame[c].sum() for c in cols], lines 107, 121, 131
\* Faulty variant: the sums ordered by magnitude.
SumListByMagnitude(d, cols) == SortDesc([i \in 1..Len(cols) |-> BoolSum(d, cols[i])])
SumList(d, cols) == [i \in 1..Len(cols) |-> BoolSum(d, cols[i])]

\* frame[col].value_counts(): the count of each distinct non-null value.
\* (pandas orders the result by count; the order is not modelled.)
\* Faulty variant: value_counts(dropna=False).
value_counts_keepna(d, col) ==
    [v \in {d.rows[i][col] : i \in 1..len(d)} |->
        Cardinality({i \in 1..len(d) : d.rows[i][col] = v})]
value_counts(d, col) ==
    [v \in Options(d, col) |-> Cardinality({i \in 1..len(d) : d.rows[i][col] = v})]

\* frame.dropna(subset=cols): the rows with no missing value in cols.
\* Faulty variant: dropna(how='all').
dropna_all(d, cols) ==
    [d EXCEPT !.rows = MaskRows(d.rows,
        [i \in 1..len(d) |-> \E c \in cols : ~isna(d.rows[i][c])])]
dropna(d, cols) ==
    [d EXCEPT !.rows = MaskRows(d.rows,
        [i \in 1..len(d) |-> \A c \in cols : ~isna(d.rows[i][c])])]

\* frame[cols].head(n)
head(d, cols, n) ==
    [columns |-> cols,
     rows |-> [i \in 1..(IF len(d) < n THEN len(d) ELSE n) |->
                 [c \in cols |-> d.rows[i][c]]]]

\* Lines 76-92: the map section draws map_df, or shows the info message.
MapSection(m) ==
    IF len(m) > 0
    THEN [element |-> "scatter_mapbox", data |-> m.rows]
    ELSE [element |-> "info", data |-> <<>>]

\* Lines 57-153: everything the script renders from filtered_df and map_df.
Render(fd, m) ==
    [total |-> len(fd),
     adult_count |-> len(WhereEq(fd, "Age", Adult)),
     gray_count |-> len(WhereEq(fd, "Primary_Fur_Color", Gray)),
     eating_count |-> BoolSum(fd, "Eating"),
     map |-> MapSection(m),
     color_counts |-> value_counts(fd, "Primary_Fur_Color"),
     activity_counts |-> SumList(fd, activities),
     vocal_counts |-> SumList(fd, vocalizations),
     interaction_counts |-> SumList(fd, interactions),
     shift_counts |-> value_counts(fd, "Shift"),
     table |-> head(fd, TableColumns, HeadRows)]

(***************************************************************************)
(* The source file.  `file` is the content of /data/in/tables/              *)
(* Veverky-2018.csv as pd.read_csv parses it (line 16): missing and empty  *)
(* cells are NaN, a column of numbers holds floats or ints, True/False     *)
(* tokens may arrive as bools, everything else as strings.                 *)
(***************************************************************************)
RawRow(id, color, age, shift, x, y, truthy, yes, no) ==
    [c \in AllColumns |->
        CASE c = "Unique_Squirrel_ID" -> StrV(id)
          [] c = "Primary_Fur_Color" -> color
          [] c = "Age" -> age
          [] c = "Shift" -> shift
          [] c = "Location" -> StrV(<<"G", "r", "o", "u", "n", "d">>)
          [] c = "X" -> x
          [] c = "Y" -> y
          [] OTHER -> IF c \in truthy THEN yes ELSE no]

\* The raw rows a source file is made of.
SampleRows == {
    RawRow(<<"1", "A">>, StrV(<<"G", "r", "a", "y">>), StrV(<<"A", "d", "u", "l", "t">>),
           StrV(<<"A", "M">>), StrV(<<"-", "7", "3", ",", "9">>), StrV(<<"4", "0", ",", "7">>),
           {"Running", "Eating", "Kuks", "Approaches", "Tail_flags"},
           StrV(<<"t", "r", "u", "e">>), StrV(<<"F", "A", "L", "S", "E">>)),
    RawRow(<<"2", "B">>, StrV(<<"C", "i", "n", "n", "a", "m", "o", "n">>), StrV(<<"J", "u", "v", "e", "n", "i", "l", "e">>),
           StrV(<<"P", "M">>), FloatV(0 - 7397, 2), IntV(41),
           {"Chasing", "Eating", "Foraging", "Quaas", "Indifferent"},
           BoolV(TRUE), BoolV(FALSE)),
    RawRow(<<"3", "C">>, NaN, StrV(<<"A", "d", "u", "l", "t">>),
           StrV(<<"P", "M">>), StrV(<<"x">>), StrV(<<"-", "0", ",", "5", "0">>),
           {"Running", "Chasing", "Climbing", "Moans", "Runs_from"},
           StrV(<<"T", "R", "U", "E">>), NaN),
    RawRow(<<"4", "D">>, StrV(<<"G", "r", "a", "y">>), NaN,
           StrV(<<"A", "M">>), NaN, NaN,
           {"Climbing", "Eating", "Tail_twitches"},
           StrV(<<"T", "r", "u", "e">>), StrV(<<"1">>)),
    RawRow(<<"5", "E">>, StrV(<<"C", "i", "n", "n", "a", "m", "o", "n">>), StrV(<<"A", "d", "u", "l", "t">>),
           NaN, StrV(<<"-", "7", "3", ".", "9", "7">>), StrV(<<"4", "0", ",", "7", "8", ",", "1">>),
           {"Foraging", "Kuks", "Quaas"},
           StrV(<<"t", "R", "U", "E">>), IntV(1))}

\* The column sets of a source file: the optional columns present or not.
ColumnChoices == {AllColumns, AllColumns \ OptionalColumns}

Files ==
    {[columns |-> C, rows |-> [i \in 1..Len(rs) |-> [c \in C |-> rs[i][c]]]] :
        C \in ColumnChoices,
        rs \in UNION {[1..n -> SampleRows] : n \in 0..MaxRows}}

(***************************************************************************)
(* State.                                                                  *)
(***************************************************************************)
VARIABLES
    file,             \* the parsed content of the source file on disk
    readLog,          \* the contents read from the source file so far, in order
    cache,            \* st.cache_data's entry for load_data: <<>> or <<frame>>
    rendered,         \* a script run has completed in the current session
    selected_colors,  \* the value of the "Fur Color" multiselect
    selected_ages,    \* the value of the "Age" multiselect
    selected_shifts,  \* the value of the "Observation Shift" multiselect
    df,               \* the script's df after the last run
    filtered_df,      \* the script's filtered_df after the last run
    map_df,           \* the script's map_df after the last run
    out               \* the elements the last run rendered

vars == <<file, readLog, cache, rendered, selected_colors, selected_ages,
          selected_shifts, df, filtered_df, map_df, out>>

Init ==
    /\ file \in Files
    /\ readLog = <<>>
    /\ cache = <<>>
    /\ rendered = FALSE
    /\ selected_colors = {}
    /\ selected_ages = {}
    /\ selected_shifts = {}
    /\ df = EmptyFrame
    /\ filtered_df = EmptyFrame
    /\ map_df = EmptyFrame
    /\ out = Render(EmptyFrame, EmptyFrame)

\* One run of the script, lines 31-153, with the multiselects returning sel.
Rerun(sel) ==
    LET loaded == load_data(cache, file)
        env == ApplyFilters(loaded.value, sel)
        m == dropna(env.filtered_df, {"X", "Y"})
    IN /\ cache' = loaded.cache
       /\ readLog' = readLog \o loaded.read
       /\ selected_colors' = sel.colors
       /\ selected_ages' = sel.ages
       /\ selected_shifts' = sel.shifts
       /\ df' = env.df
       /\ filtered_df' = env.filtered_df
       /\ map_df' = m
       /\ out' = Render(env.filtered_df, m)
       /\ rendered' = TRUE
       /\ UNCHANGED file

\* A browser session opens the app: the first run of a session, in which every
\* multiselect returns its default, the full list of options (lines 38, 42, 46).
OpenSession ==
    LET d == load_data(cache, file).value
    IN Rerun([colors |-> Options(d, "Primary_Fur_Color"),
              ages |-> Options(d, "Age"),
              shifts |-> Options(d, "Shift")])

\* The user changes the "Fur Color" multiselect; Streamlit reruns the script.
SelectColors ==
    /\ rendered
    /\ \E S \in SUBSET Options(df, "Primary_Fur_Color") :
        /\ S # selected_colors
        /\ Rerun([colors |-> S, ages |-> selected_ages, shifts |-> selected_shifts])

\* The user changes the "Age" multiselect.
SelectAges ==
    /\ rendered
    /\ \E S \in SUBSET Options(df, "Age") :
        /\ S # selected_ages
        /\ Rerun([colors |-> selected_colors, ages |-> S, shifts |-> selected_shifts])

\* The user changes the "Observation Shift" multiselect.
SelectShifts ==
    /\ rendered
    /\ \E S \in SUBSET Options(df, "Shift") :
        /\ S # selected_shifts
        /\ Rerun([colors |-> selected_colors, ages |-> selected_ages, shifts |-> S])

\* Outside the program: the source file is rewritten and keeps only its header
\* row.  The script never writes the file (it only calls pd.read_csv), so the
\* file's content changes in no other way.
SourceRewritten ==
    /\ len(file) > 0
    /\ file' = [file EXCEPT !.rows = <<>>]
    /\ UNCHANGED <<readLog, cache, rendered, selected_colors, selected_ages,
                   selected_shifts, df, filtered_df, map_df, out>>

Next ==
    \/ OpenSession
    \/ SelectColors
    \/ SelectAges
    \/ SelectShifts
    \/ SourceRewritten

Spec == Init /\ [][Next]_vars

(***************************************************************************)
(* Vocabulary of the properties.                                           *)
(***************************************************************************)
\* The rows of a sequence at the indices in I, in increasing index order.
RowsAt(rows, I) ==
    [k \in 1..Cardinality(I) |->
        rows[CHOOSE i \in I : Cardinality({j \in I : j < i}) = k - 1]]

\* The current value of the multiselect of a filterable column.
Selected(col) ==
    CASE col = "Primary_Fur_Color" -> selected_colors
      [] col = "Age" -> selected_ages
      [] col = "Shift" -> selected_shifts

FilterFields == {"Primary_Fur_Color", "Age", "Shift"}

\* Row r meets the constraint of every column of cols that has a non-empty selection.
Passes(r, cols) == \A c \in cols : Selected(c) = {} \/ r[c] \in Selected(c)

\* The sum of the counts of a frequency table.
RECURSIVE SumCounts(_)
SumCounts(f) ==
    IF DOMAIN f = {} THEN 0
    ELSE LET v == CHOOSE x \in DOMAIN f : TRUE
         IN f[v] + SumCounts([x \in DOMAIN f \ {v} |-> f[x]])

\* The number of rows of a frame with a non-null value in column col.
NonNull(d, col) == Cardinality({i \in 1..len(d) : ~isna(d.rows[i][col])})

\* The content of the source file at the first (and only) read.
FirstRead == readLog[1]

(***************************************************************************)
(* C1                                                                      *)
(***************************************************************************)
\* C1 (as stated): whenever the table is non-empty and the user has emptied the
\* selection of one of the three filterable fields, the filtered view has 0 rows.
C1_EmptySelectionYieldsEmptyView ==
    (/\ rendered
     /\ len(df) > 0
     /\ \E c \in FilterFields : Selected(c) = {} /\ Options(df, c) # {})
    => len(filtered_df) = 0

\* C1 (amended): a field whose selection is empty is left unconstrained: the view
\* is exactly the rows of the table, in order, that meet the other two fields'
\* selections; with all three selections empty it is the unfiltered table.
C1_EmptySelectionIsNoFilter ==
    rendered =>
        /\ \A c \in FilterFields :
            Selected(c) = {} =>
                filtered_df.rows =
                    RowsAt(df.rows, {i \in 1..len(df) :
                                        Passes(df.rows[i], FilterFields \ {c})})
        /\ (\A c \in FilterFields : Selected(c) = {}) => filtered_df = df

\* C1 witness: the user emptied the Age selection of a table that offers ages,
\* and the view still shows some, but not all, rows.
C1_Witness ==
    /\ rendered
    /\ selected_ages = {}
    /\ Options(df, "Age") # {}
    /\ len(filtered_df) > 0
    /\ len(filtered_df) < len(df)

(***************************************************************************)
(* C2                                                                      *)
(***************************************************************************)
\* C2 (as stated): with every multiselect at its full list of options (the
\* defaults), the filtered view is the whole table, same rows, same order,
\* rows with a null in a filterable field included.
C2_FullSelectionReturnsFullTable ==
    (/\ rendered
     /\ \A c \in FilterFields : Selected(c) = Options(df, c))
    => filtered_df = df

(***************************************************************************)
(* C3                                                                      *)
(***************************************************************************)
\* C3: the filtered view is the order-preserving subsequence of the table made of
\* exactly the rows whose value in every field with a non-empty selection is in
\* that selection; no row of the view is null in such a field.
C3_ViewIsFilteredSubsequence ==
    rendered =>
        /\ filtered_df.columns = df.columns
        /\ filtered_df.rows =
            RowsAt(df.rows, {i \in 1..len(df) : Passes(df.rows[i], FilterFields)})
        /\ \A k \in 1..len(filtered_df) : \A c \in FilterFields :
            Selected(c) # {} => ~isna(filtered_df.rows[k][c])

\* C3 witness: a table of two rows, one of them null in Age, filtered by a
\* non-empty Age selection that keeps the other row.
C3_Witness ==
    /\ rendered
    /\ len(df) = 2
    /\ selected_ages # {}
    /\ \E i \in 1..len(df) : isna(df.rows[i]["Age"])
    /\ len(filtered_df) = 1

(***************************************************************************)
(* C4                                                                      *)
(***************************************************************************)
\* C4: after load_data every boolean-flag column present in the source holds
\* exactly true or false in every row, true iff the uppercase string form of the
\* raw value is "TRUE": "true", "True", "TRUE" and the bool True give true;
\* "FALSE", "1", 1, a missing value and the bool False give false; a
\* column absent from the source is not added.
C4_BoolFlagsNormalised ==
    rendered =>
        /\ df.columns = FirstRead.columns
        /\ len(df) = len(FirstRead)
        /\ \A i \in 1..len(df) : \A c \in bool_cols \cap df.columns :
            LET raw == FirstRead.rows[i][c]
                cell == df.rows[i][c]
            IN /\ cell.t = "bool"
               /\ cell.b \in BOOLEAN
               /\ cell.b <=> (Upper(PyStr(raw)) = TRUE_)
               /\ raw \in {StrV(<<"t", "r", "u", "e">>), StrV(<<"T", "r", "u", "e">>),
                           StrV(<<"T", "R", "U", "E">>), BoolV(TRUE)} => cell.b
               /\ raw \in {StrV(<<"F", "A", "L", "S", "E">>),
                           StrV(<<"1">>), IntV(1), NaN, BoolV(FALSE)} => ~cell.b

\* C4 witness: a loaded table without the optional columns, one of whose flags
\* was the lowercase token "true" and another a missing value.
C4_Witness ==
    /\ rendered
    /\ "Tail_flags" \notin df.columns
    /\ \E i \in 1..len(df) :
        /\ FirstRead.rows[i]["Running"] = StrV(<<"t", "r", "u", "e">>)
        /\ df.rows[i]["Running"] = BoolV(TRUE)
    /\ \E i \in 1..len(df) :
        /\ FirstRead.rows[i]["Eating"] = NaN
        /\ df.rows[i]["Eating"] = BoolV(FALSE)

(***************************************************************************)
(* C5                                                                      *)
(***************************************************************************)
\* C5: after load_data every X and Y is a number or absent, never a string, and
\* no row is lost: "-73,9" becomes -73.9, a number stays the number it was, and
\* a value that does not parse (garbage, two separators, a missing value)
\* becomes absent, not zero.
C5_CoordinatesNumericOrAbsent ==
    rendered =>
        /\ len(df) = len(FirstRead)
        /\ \A i \in 1..len(df) : \A c \in {"X", "Y"} :
            LET raw == FirstRead.rows[i][c]
                cell == df.rows[i][c]
            IN /\ cell.t \in {"float", "nan"}
               /\ raw = StrV(<<"-", "7", "3", ",", "9">>) => cell = FloatV(0 - 739, 1)
               /\ raw = StrV(<<"4", "0", ",", "7">>) => cell = FloatV(407, 1)
               /\ raw = StrV(<<"-", "7", "3", ".", "9", "7">>) => cell = FloatV(0 - 7397, 2)
               /\ raw = StrV(<<"-", "0", ",", "5", "0">>) => cell = FloatV(0 - 5, 1)
               /\ raw.t = "float" => cell = raw
               /\ raw.t = "int" => cell = FloatV(raw.n, 0)
               /\ raw \in {NaN, StrV(<<"x">>),
                           StrV(<<"4", "0", ",", "7", "8", ",", "1">>)} => cell = NaN

\* C5 witness: a loaded table holding a comma-separated coordinate that became
\* a number and a garbage coordinate that became absent, both rows kept.
C5_Witness ==
    /\ rendered
    /\ len(df) = 2
    /\ \E i \in 1..len(df) :
        /\ FirstRead.rows[i]["X"] = StrV(<<"-", "7", "3", ",", "9">>)
        /\ df.rows[i]["X"] = FloatV(0 - 739, 1)
    /\ \E i \in 1..len(df) :
        /\ FirstRead.rows[i]["X"] = StrV(<<"x">>)
        /\ df.rows[i]["X"] = NaN

(***************************************************************************)
(* C6                                                                      *)
(***************************************************************************)
\* C6: over any sequence of script runs in the process the source file is read
\* at most once, and every run's table is the normalised content of that first
\* read, whatever the file holds by then.
C6_SourceReadAtMostOnce ==
    /\ Len(readLog) <= 1
    /\ Len(cache) = Len(readLog)
    /\ rendered =>
        /\ Len(readLog) = 1
        /\ df = load_data_body(FirstRead)
        /\ cache = <<df>>

\* C6 witness: the file on disk no longer holds what was read, and the script
\* has run again since the first run (a selection is no longer its default).
C6_Witness ==
    /\ rendered
    /\ file # FirstRead
    /\ selected_colors # Options(df, "Primary_Fur_Color")
    /\ len(df) > len(file)

(***************************************************************************)
(* C7                                                                      *)
(***************************************************************************)
\* C7: no step modifies the canonical table once it is loaded: the cached table
\* stays what it was, and after every run the script's df is that table (rows,
\* values and order), so the options offered by the widgets stay the same.
C7_CanonicalTableImmutable ==
    [][/\ cache # <<>> => cache' = cache
       /\ rendered' =>
            /\ df' = cache'[1]
            /\ \A c \in FilterFields : Options(df', c) = Options(cache'[1], c)]_vars

\* C7 witness: a run whose filters removed rows from the view while the table
\* kept all of them.
C7_Witness ==
    /\ rendered
    /\ len(df) = 2
    /\ df = cache[1]
    /\ len(filtered_df) = 1
    /\ len(map_df) = 0

(***************************************************************************)
(* C8                                                                      *)
(***************************************************************************)
\* The number of rows of the view whose flag col is true.
TrueRows(col) ==
    Cardinality({k \in 1..len(filtered_df) : filtered_df.rows[k][col] = BoolV(TRUE)})

\* C8: each of the three lists of sums has the length of its field list, and its
\* i-th element is the number of rows of the view whose i-th field is true, in
\* the declared field order.
C8_SumsInDeclaredOrder ==
    rendered =>
        /\ Len(out.activity_counts) = 5
        /\ Len(out.vocal_counts) = 3
        /\ Len(out.interaction_counts) = 3
        /\ out.activity_counts =
            <<TrueRows("Running"), TrueRows("Chasing"), TrueRows("Climbing"),
              TrueRows("Eating"), TrueRows("Foraging")>>
        /\ out.vocal_counts = <<TrueRows("Kuks"), TrueRows("Quaas"), TrueRows("Moans")>>
        /\ out.interaction_counts =
            <<TrueRows("Approaches"), TrueRows("Indifferent"), TrueRows("Runs_from")>>

\* C8 witness: a view in which a later field has more true rows than an earlier
\* one, so the declared order is not the order by magnitude.
C8_Witness ==
    /\ rendered
    /\ out.activity_counts[1] = 1
    /\ out.activity_counts[2] = 2
    /\ out.vocal_counts[1] < out.vocal_counts[3]

(***************************************************************************)
(* C9                                                                      *)
(***************************************************************************)
\* The indices of the rows of the view with both coordinates present.
Located ==
    {k \in 1..len(filtered_df) :
        ~isna(filtered_df.rows[k]["X"]) /\ ~isna(filtered_df.rows[k]["Y"])}

\* C9: an empty view shows the no-data message and no map; the map is drawn iff
\* some row of the view has both coordinates, and it plots exactly those rows.
C9_MapOnlyForLocatedRows ==
    rendered =>
        /\ len(filtered_df) = 0 => out.map = [element |-> "info", data |-> <<>>]
        /\ out.map.element \in {"scatter_mapbox", "info"}
        /\ out.map.element = "scatter_mapbox" <=> Located # {}
        /\ out.map.data = RowsAt(filtered_df.rows, Located)
        /\ map_df.rows = out.map.data

\* C9 witness: the selections leave no row of a non-empty table, and the map
\* section shows the message.
C9_Witness ==
    /\ rendered
    /\ len(df) > 0
    /\ len(filtered_df) = 0
    /\ out.map.element = "info"

(***************************************************************************)
(* C10                                                                     *)
(***************************************************************************)
\* C10 (as stated): the fur-color counts sum to the total of the view, so do the
\* shift counts, and the Adults and Gray counts do not exceed it.
C10_FrequencyCountsSumToTotal ==
    rendered =>
        /\ SumCounts(out.color_counts) = out.total
        /\ SumCounts(out.shift_counts) = out.total
        /\ out.adult_count <= out.total
        /\ out.gray_count <= out.total

\* C10 (amended): the fur-color counts sum to the number of rows of the view with
\* a non-null fur color, the shift counts to the number with a non-null shift;
\* each sum equals the total when that field's selection is non-empty and never
\* exceeds it; the Adults and Gray counts never exceed the total.
C10_FrequencyCountsSumToNonNull ==
    rendered =>
        /\ out.total = len(filtered_df)
        /\ SumCounts(out.color_counts) = NonNull(filtered_df, "Primary_Fur_Color")
        /\ SumCounts(out.shift_counts) = NonNull(filtered_df, "Shift")
        /\ SumCounts(out.color_counts) <= out.total
        /\ SumCounts(out.shift_counts) <= out.total
        /\ selected_colors # {} => SumCounts(out.color_counts) = out.total
        /\ selected_shifts # {} => SumCounts(out.shift_counts) = out.total
        /\ out.adult_count <= out.total
        /\ out.gray_count <= out.total

\* C10 witness: with the fur-color selection emptied, the view holds a row
\* without a fur color, and the pie chart counts fewer rows than the total.
C10_Witness ==
    /\ rendered
    /\ selected_colors = {}
    /\ Options(df, "Primary_Fur_Color") # {}
    /\ SumCounts(out.color_counts) > 0
    /\ SumCounts(out.color_counts) < out.total

====
